---- MODULE Spec2Model ----
(***************************************************************************)
(* Model of src/object.rs: the JSObject property operations, the Deref of  *)
(* JSObject to JSValue, and the JSObjectPropertyNameIter cursor, together  *)
(* with the part of the JavaScriptCore engine those operations call.       *)
(***************************************************************************)
EXTENDS Integers, Sequences, FiniteSets, TLC

\* ------------------------------------------------------------------ bounds
\* number of property_names calls in one behaviour
MaxCursors == 2
\* largest index handed to get_property_at_index
MaxIndex == 12

\* ------------------------------------------------------- options, pointers
NULLPTR == "NULL"
None == <<>>
Some(x) == <<x>>

\* ------------------------------------------------------------------- names
\* A property name is its text, a sequence of characters.
Digits == <<"0", "1", "2", "3", "4", "5", "6", "7", "8", "9">>
N_id == <<"i", "d">>
N_no_such_value == <<"n", "o", "-", "s", "u", "c", "h", "-", "v", "a", "l", "u", "e">>
N_length == <<"l", "e", "n", "g", "t", "h">>
N_boom == <<"b", "o", "o", "m">>
N_01 == <<"0", "1">>
N_toString == <<"t", "o", "S", "t", "r", "i", "n", "g">>

RECURSIVE ToDecimal(_)
\* the decimal text of a u32
ToDecimal(i) ==
    IF i < 10 THEN <<Digits[i + 1]>>
    ELSE ToDecimal(i \div 10) \o <<Digits[(i % 10) + 1]>>

IsDigit(ch) == \E d \in 1..10 : Digits[d] = ch
DigitVal(ch) == (CHOOSE d \in 1..10 : Digits[d] = ch) - 1

RECURSIVE DecimalValue(_)
DecimalValue(s) ==
    IF Len(s) = 0 THEN 0
    ELSE 10 * DecimalValue(SubSeq(s, 1, Len(s) - 1)) + DigitVal(s[Len(s)])

\* The engine treats a name as an array index only when it is the canonical
\* decimal text of a number: digits only, no leading zero.
IsArrayIndex(s) ==
    /\ Len(s) >= 1
    /\ \A k \in 1..Len(s) : IsDigit(s[k])
    /\ (Len(s) > 1 => s[1] # "0")

\* ------------------------------------------------------------- engine heap
Contexts == {"ctxA", "ctxB"}
UndefinedRef == "undefined"
PrimitiveRefs == {"undefined", "null", "num3", "num7", "num123", "true", "strAbc"}
ObjectRefs == {"objId", "objArr", "objAcc", "objEmpty", "objProto"}
ValueRefs == PrimitiveRefs \cup ObjectRefs

JSType(v) ==
    CASE v \in ObjectRefs -> "object"
      [] v = "undefined" -> "undefined"
      [] v = "null" -> "null"
      [] v \in {"num3", "num7", "num123"} -> "number"
      [] v = "true" -> "boolean"
      [] v = "strAbc" -> "string"
      [] OTHER -> "invalid"

Data(v, en) == [kind |-> "data", value |-> v, exc |-> NULLPTR, enumerable |-> en]
Throws(x, en) == [kind |-> "getter_throws", value |-> NULLPTR, exc |-> x, enumerable |-> en]
Absent == [kind |-> "absent", value |-> NULLPTR, exc |-> NULLPTR, enumerable |-> FALSE]

\* objId is {"id": 123}; objArr is [3, true, "abc"]; objAcc has a throwing
\* getter under index 0 and under "boom", a hole at 1..9, an element at 10
\* and a property named "01"; objProto is the shared prototype.
Heap ==
    [o \in ObjectRefs |->
        CASE o = "objId" ->
               [elems |-> <<>>, order |-> <<N_id>>,
                props |-> [n \in {N_id} |-> Data("num123", TRUE)],
                proto |-> "objProto"]
          [] o = "objArr" ->
               [elems |-> <<Data("num3", TRUE), Data("true", TRUE), Data("strAbc", TRUE)>>,
                order |-> <<N_length>>,
                props |-> [n \in {N_length} |-> Data("num3", FALSE)],
                proto |-> "objProto"]
          [] o = "objAcc" ->
               [elems |-> <<Throws("num7", TRUE), Absent, Absent, Absent, Absent, Absent,
                            Absent, Absent, Absent, Absent, Data("num7", TRUE)>>,
                order |-> <<N_boom, N_01, N_id>>,
                props |-> [n \in {N_boom, N_01, N_id} |->
                             IF n = N_boom THEN Throws("strAbc", TRUE)
                             ELSE IF n = N_01 THEN Data("true", TRUE)
                             ELSE Data("num123", FALSE)],
                proto |-> "objProto"]
          [] o = "objEmpty" ->
               [elems |-> <<>>, order |-> <<>>,
                props |-> [n \in {} |-> Absent],
                proto |-> "objProto"]
          [] OTHER ->
               [elems |-> <<>>, order |-> <<N_toString>>,
                props |-> [n \in {N_toString} |-> Data("objEmpty", FALSE)],
                proto |-> NULLPTR]]

\* --------------------------------------------------------------- variables
VARIABLES
    arrays,          \* engine: the property-name arrays allocated so far
    cursors,         \* the JSObjectPropertyNameIter values created so far
    produced,        \* per cursor: the names next has returned
    reads,           \* per cursor: the indices passed to GetNameAtIndex
    ret,             \* the last operation performed and what it returned
    engineThrowRaw   \* what this engine returns from a getter that throws

vars == <<arrays, cursors, produced, reads, ret, engineThrowRaw>>

\* ------------------------------------------------------ handles (lib side)
JSValueOf(raw, ctx) == [raw |-> raw, ctx |-> ctx]
JSStringOf(raw) == [raw |-> raw]

\* &str -> JSString: an engine string holding the same text
into(name) == JSStringOf(name)

\* JSValue::as_object: an object handle embedding the value handle
as_object(v) ==
    IF JSType(v.raw) = "object" THEN Some([raw |-> v.raw, value |-> v]) ELSE None

ValueHandles == {JSValueOf(r, c) : r \in ValueRefs, c \in Contexts}
ObjectHandles == {as_object(v)[1] : v \in {w \in ValueHandles : as_object(w) # None}}

\* ------------------------------------------------- engine: property arrays
RECURSIVE IndexNames(_, _)
\* names of the present, enumerable elements from position i on, ascending
IndexNames(elems, i) ==
    IF i > Len(elems) THEN <<>>
    ELSE (IF elems[i].kind # "absent" /\ elems[i].enumerable
          THEN <<ToDecimal(i - 1)>> ELSE <<>>) \o IndexNames(elems, i + 1)

EnumerableNames(o) ==
    IndexNames(Heap[o].elems, 1)
        \o SelectSeq(Heap[o].order, LAMBDA n : Heap[o].props[n].enumerable)

\* allocates a new array; the reference is its position in arrays
JSObjectCopyPropertyNames(ctx, o) ==
    [names |-> EnumerableNames(o), released |-> 0, obj |-> o]

JSPropertyNameArrayGetCount(raw) == Len(arrays[raw].names)

JSPropertyNameArrayGetNameAtIndex(raw, i) ==
    IF i < Len(arrays[raw].names) THEN arrays[raw].names[i + 1] ELSE NULLPTR

\* ------------------------------------------------------ JSObject: cursors
property_names_shared(self) ==
    LET same == {a \in 1..Len(arrays) : arrays[a].obj = self.raw}
    IN  IF same # {}
        THEN [arrays |-> arrays,
              iter |-> [raw |-> CHOOSE a \in same : TRUE, idx |-> 0]]
        ELSE [arrays |-> Append(arrays, JSObjectCopyPropertyNames(self.value.ctx, self.raw)),
              iter |-> [raw |-> Len(arrays) + 1, idx |-> 0]]

property_names(self) ==
    [arrays |-> Append(arrays, JSObjectCopyPropertyNames(self.value.ctx, self.raw)),
     iter |-> [raw |-> Len(arrays) + 1, idx |-> 0]]

next_inclusive(it) ==
    IF it.idx <= JSPropertyNameArrayGetCount(it.raw)
    THEN [it |-> [it EXCEPT !.idx = it.idx + 1],
          out |-> Some(JSStringOf(JSPropertyNameArrayGetNameAtIndex(it.raw, it.idx))),
          read |-> Some(it.idx)]
    ELSE [it |-> it, out |-> None, read |-> None]

next_skipping(it) ==
    IF it.idx < JSPropertyNameArrayGetCount(it.raw)
    THEN [it |-> [it EXCEPT !.idx = it.idx + 2],
          out |-> Some(JSStringOf(JSPropertyNameArrayGetNameAtIndex(it.raw, it.idx))),
          read |-> Some(it.idx)]
    ELSE [it |-> it, out |-> None, read |-> None]

next_stale(it) ==
    IF it.idx < JSPropertyNameArrayGetCount(it.raw)
    THEN [it |-> [it EXCEPT !.idx = it.idx + 1],
          out |-> Some(JSStringOf(JSPropertyNameArrayGetNameAtIndex(it.raw, 0))),
          read |-> Some(0)]
    ELSE [it |-> it, out |-> None, read |-> None]

next(it) ==
    IF it.idx < JSPropertyNameArrayGetCount(it.raw)
    THEN [it |-> [it EXCEPT !.idx = it.idx + 1],
          out |-> Some(JSStringOf(JSPropertyNameArrayGetNameAtIndex(it.raw, it.idx))),
          read |-> Some(it.idx)]
    ELSE [it |-> it, out |-> None, read |-> None]

size_hint(it) ==
    LET sz == JSPropertyNameArrayGetCount(it.raw)
    IN  <<sz - it.idx, Some(sz)>>

\* JSObjectPropertyNameIter has no Drop implementation: dropping it frees the
\* two fields and makes no engine call, so the arrays are left as they are.
drop(it) == arrays

\* ----------------------------------------------- engine: property lookup
OwnElement(o, i) ==
    IF i < Len(Heap[o].elems) THEN Heap[o].elems[i + 1] ELSE Absent

OwnProperty(o, name) ==
    IF IsArrayIndex(name) THEN OwnElement(o, DecimalValue(name))
    ELSE IF name \in DOMAIN Heap[o].props THEN Heap[o].props[name]
    ELSE Absent

RECURSIVE Lookup(_, _)
\* the object, then its prototype chain
Lookup(o, name) ==
    IF o = NULLPTR THEN Absent
    ELSE IF OwnProperty(o, name).kind # "absent" THEN OwnProperty(o, name)
    ELSE Lookup(Heap[o].proto, name)

RECURSIVE LookupIndex(_, _)
LookupIndex(o, i) ==
    IF o = NULLPTR THEN Absent
    ELSE IF OwnElement(o, i).kind # "absent" THEN OwnElement(o, i)
    ELSE LookupIndex(Heap[o].proto, i)

\* the returned reference and what is written to the exception slot
Outcome(d) ==
    CASE d.kind = "data" -> [raw |-> d.value, exc |-> NULLPTR]
      [] d.kind = "getter_throws" -> [raw |-> engineThrowRaw, exc |-> d.exc]
      [] OTHER -> [raw |-> UndefinedRef, exc |-> NULLPTR]

JSObjectHasProperty(ctx, o, name) == Lookup(o, name).kind # "absent"
JSObjectGetProperty(ctx, o, name) == Outcome(Lookup(o, name))
JSObjectGetPropertyAtIndex(ctx, o, i) == Outcome(LookupIndex(o, i))
JSValueGetType(ctx, v) == JSType(v)

\* ------------------------------------------- JSObject: property access
\* each returns the value handed back, the final content of the local
\* exception slot e, and the engine call made
has_property_own(self, name) ==
    [val |-> OwnProperty(self.raw, into(name).raw).kind # "absent",
     call |-> <<"JSObjectHasProperty", self.value.ctx, self.raw, into(name).raw>>]

has_property(self, name) ==
    [val |-> JSObjectHasProperty(self.value.ctx, self.raw, into(name).raw),
     call |-> <<"JSObjectHasProperty", self.value.ctx, self.raw, into(name).raw>>]

get_property_checked(self, name) ==
    LET r == JSObjectGetProperty(self.value.ctx, self.raw, into(name).raw)
    IN  [val |-> JSValueOf(IF r.exc # NULLPTR THEN r.exc ELSE r.raw, self.value.ctx),
         e |-> r.exc,
         call |-> <<"JSObjectGetProperty", self.value.ctx, self.raw, into(name).raw>>]

get_property(self, name) ==
    LET r == JSObjectGetProperty(self.value.ctx, self.raw, into(name).raw)
    IN  [val |-> JSValueOf(r.raw, self.value.ctx),
         e |-> r.exc,
         call |-> <<"JSObjectGetProperty", self.value.ctx, self.raw, into(name).raw>>]

get_property_at_index_by_name(self, index) ==
    get_property(self, ToDecimal(index))

get_property_at_index(self, index) ==
    LET r == JSObjectGetPropertyAtIndex(self.value.ctx, self.raw, index)
    IN  [val |-> JSValueOf(r.raw, self.value.ctx),
         e |-> r.exc,
         call |-> <<"JSObjectGetPropertyAtIndex", self.value.ctx, self.raw, index>>]

\* ------------------------------------------------- Deref to JSValue
deref_raw(self) == JSValueOf(UndefinedRef, self.value.ctx)

deref(self) == self.value

\* JSValue::is_object, is_number, ...: the engine's type of the raw value
ValuePredicates == {"object", "number", "boolean", "string", "undefined", "null"}
is_type(v, t) == JSValueGetType(v.ctx, v.raw) = t

\* ------------------------------------------------------------------- Init
NoRet == [op |-> "none"]

Init ==
    /\ arrays = <<>>
    /\ cursors = <<>>
    /\ produced = <<>>
    /\ reads = <<>>
    /\ ret = NoRet
    /\ engineThrowRaw \in {UndefinedRef, NULLPTR}

Live == {c \in 1..Len(cursors) : cursors[c].alive}

\* ---------------------------------------------------------------- actions
PropertyNames ==
    /\ Len(cursors) < MaxCursors
    /\ \E self \in ObjectHandles :
         LET r == property_names(self)
         IN  /\ arrays' = r.arrays
             /\ cursors' = Append(cursors, [raw |-> r.iter.raw, idx |-> r.iter.idx,
                                            alive |-> TRUE])
             /\ produced' = Append(produced, <<>>)
             /\ reads' = Append(reads, <<>>)
             /\ ret' = [op |-> "property_names", cursor |-> Len(cursors) + 1]
    /\ UNCHANGED engineThrowRaw

IterNext ==
    /\ \E c \in Live :
         LET r == next([raw |-> cursors[c].raw, idx |-> cursors[c].idx])
         IN  /\ cursors' = [cursors EXCEPT ![c].raw = r.it.raw, ![c].idx = r.it.idx]
             /\ produced' = [produced EXCEPT ![c] = @ \o r.out]
             /\ reads' = [reads EXCEPT ![c] = @ \o r.read]
             /\ ret' = [op |-> "next", cursor |-> c, out |-> r.out]
    /\ UNCHANGED <<arrays, engineThrowRaw>>

SizeHint ==
    /\ \E c \in Live :
         ret' = [op |-> "size_hint", cursor |-> c,
                 out |-> size_hint([raw |-> cursors[c].raw, idx |-> cursors[c].idx])]
    /\ UNCHANGED <<arrays, cursors, produced, reads, engineThrowRaw>>

DropCursor ==
    /\ \E c \in Live :
         /\ arrays' = drop([raw |-> cursors[c].raw, idx |-> cursors[c].idx])
         /\ cursors' = [cursors EXCEPT ![c].alive = FALSE]
         /\ ret' = [op |-> "drop", cursor |-> c]
    /\ UNCHANGED <<produced, reads, engineThrowRaw>>

Next ==
    \/ PropertyNames
    \/ IterNext
    \/ SizeHint
    \/ DropCursor

Spec == Init /\ [][Next]_vars

\* ------------------------------------------------ property access actions
NameInputs ==
    {N_id, N_no_such_value, N_length, N_boom, N_01, N_toString,
     <<"0">>, <<"1">>, <<"5">>, <<"1", "0">>, <<"0", "0">>}
IndexInputs == 0..MaxIndex

HasProperty ==
    /\ \E self \in ObjectHandles, name \in NameInputs :
         LET r == has_property(self, name)
         IN  ret' = [op |-> "has_property", self |-> self, arg |-> name,
                     val |-> r.val, call |-> r.call]
    /\ UNCHANGED <<arrays, cursors, produced, reads, engineThrowRaw>>

GetProperty ==
    /\ \E self \in ObjectHandles, name \in NameInputs :
         LET r == get_property(self, name)
         IN  ret' = [op |-> "get_property", self |-> self, arg |-> name,
                     val |-> r.val, e |-> r.e, call |-> r.call]
    /\ UNCHANGED <<arrays, cursors, produced, reads, engineThrowRaw>>

GetPropertyAtIndex ==
    /\ \E self \in ObjectHandles, index \in IndexInputs :
         LET r == get_property_at_index(self, index)
         IN  ret' = [op |-> "get_property_at_index", self |-> self, arg |-> index,
                     val |-> r.val, e |-> r.e, call |-> r.call]
    /\ UNCHANGED <<arrays, cursors, produced, reads, engineThrowRaw>>

\* o = v.as_object(); o.is_object() and the other JSValue predicates
ValuePredicate ==
    /\ \E v \in ValueHandles, t \in ValuePredicates :
         /\ as_object(v) # None
         /\ ret' = [op |-> "value_predicate", self |-> as_object(v)[1], arg |-> v,
                    pred |-> t, val |-> is_type(deref(as_object(v)[1]), t)]
    /\ UNCHANGED <<arrays, cursors, produced, reads, engineThrowRaw>>

NextAccess ==
    \/ HasProperty
    \/ GetProperty
    \/ GetPropertyAtIndex
    \/ ValuePredicate

SpecAccess == Init /\ [][NextAccess]_vars

\* ------------------------------------------------------------- properties
Count(c) == Len(arrays[cursors[c].raw].names)
Gets == {"get_property", "get_property_at_index"}

\* C1: once a cursor has been dropped, its property-name array has been
\* released to the engine exactly once (never 0 times, never more than once).
C1_ReleasedExactlyOnce ==
    \A c \in 1..Len(cursors) :
        ~cursors[c].alive => arrays[cursors[c].raw].released = 1

\* C2: size_hint reports count - index as the lower bound and the same
\* count - index as the upper bound, and that number is the number of names
\* the cursor has still to produce.
C2_SizeHintExact ==
    ret.op = "size_hint" =>
        /\ ret.out = <<Count(ret.cursor) - cursors[ret.cursor].idx,
                       Some(Count(ret.cursor) - cursors[ret.cursor].idx)>>
        /\ ret.out[1] = Count(ret.cursor) - Len(produced[ret.cursor])

\* C3: a cursor with index = count has produced all count names; a next
\* call on it returns None and leaves index alone, and no step of any kind
\* moves its index or makes it produce again.
C3_TerminalAbsorbing ==
    /\ [](\A c \in 1..Len(cursors) :
            cursors[c].idx = Count(c) => Len(produced[c]) = Count(c))
    /\ [][\A c \in 1..Len(cursors) :
            cursors[c].idx = Count(c) =>
                /\ cursors'[c].idx = cursors[c].idx
                /\ produced'[c] = produced[c]
                /\ (ret'.op = "next" /\ ret'.cursor = c => ret'.out = None)]_vars

W_C3 ==
    /\ ret.op = "next"
    /\ ret.out = None
    /\ Count(ret.cursor) >= 3
    /\ cursors[ret.cursor].idx = Count(ret.cursor)

\* C4: the k-th name a cursor produces is the array element at index k-1;
\* the indices read are 0, 1, 2, ... each once and in order; a cursor that
\* has returned None has produced exactly count names; enumerating
\* {"id": 123} produces the one name "id".
C4_DrainInOrder ==
    /\ \A c \in 1..Len(cursors) :
        /\ Len(produced[c]) = Len(reads[c])
        /\ \A k \in 1..Len(reads[c]) : reads[c][k] = k - 1
        /\ \A k \in 1..Len(produced[c]) :
             /\ k <= Count(c)
             /\ produced[c][k] = JSStringOf(arrays[cursors[c].raw].names[k])
        /\ (arrays[cursors[c].raw].obj = "objId" /\ cursors[c].idx = Count(c)
              => produced[c] = <<JSStringOf(N_id)>>)
    /\ (ret.op = "next" /\ ret.out = None
          => Len(produced[ret.cursor]) = Count(ret.cursor))

W_C4 ==
    /\ ret.op = "next"
    /\ ret.out = None
    /\ \E c \in 1..Len(cursors) :
         /\ arrays[cursors[c].raw].obj = "objId"
         /\ produced[c] = <<JSStringOf(N_id)>>
    /\ \E c \in 1..Len(cursors) :
         /\ arrays[cursors[c].raw].obj = "objAcc"
         /\ Len(produced[c]) = 4
         /\ cursors[c].idx = Count(c)

\* C5: has_property is true exactly when the name resolves on the object or
\* its prototype chain; get_property of a name has_property rejects is the
\* undefined value as a plain handle with the exception slot empty, and of
\* a present data property is that property's value.
C5_HasAndGet ==
    /\ (ret.op = "has_property" =>
          (ret.val <=> Lookup(ret.self.raw, ret.arg).kind # "absent"))
    /\ (ret.op = "get_property" =>
          /\ (~has_property(ret.self, ret.arg).val =>
                /\ ret.val = JSValueOf(UndefinedRef, ret.self.value.ctx)
                /\ ret.e = NULLPTR)
          /\ (Lookup(ret.self.raw, ret.arg).kind = "data" =>
                ret.val = JSValueOf(Lookup(ret.self.raw, ret.arg).value,
                                    ret.self.value.ctx)))

W_C5 ==
    /\ ret.op = "get_property"
    /\ ret.self.raw = "objId"
    /\ ret.arg = N_no_such_value
    /\ ~has_property(ret.self, ret.arg).val
    /\ has_property(ret.self, N_id).val
    /\ JSType(ret.val.raw) = "undefined"

\* C6: get_property_at_index(i) returns what get_property returns for the
\* decimal text of i, the undefined value with an empty exception slot when
\* no element i exists, and it calls the engine's indexed access.
C6_IndexEquivalent ==
    ret.op = "get_property_at_index" =>
        /\ ret.val = get_property(ret.self, ToDecimal(ret.arg)).val
        /\ ret.e = get_property(ret.self, ToDecimal(ret.arg)).e
        /\ (LookupIndex(ret.self.raw, ret.arg).kind = "absent" =>
              /\ ret.val = JSValueOf(UndefinedRef, ret.self.value.ctx)
              /\ ret.e = NULLPTR)
        /\ ret.call = <<"JSObjectGetPropertyAtIndex", ret.self.value.ctx,
                        ret.self.raw, ret.arg>>

W_C6 ==
    /\ ret.op = "get_property_at_index"
    /\ ret.self.raw = "objAcc"
    /\ ret.arg = 10
    /\ ret.val.raw = "num7"

\* C7: a JSValue predicate called on an object handle o obtained from a
\* value v gives what the same predicate gives on v; is_object is true on
\* both.
C7_DerefDelegates ==
    ret.op = "value_predicate" =>
        /\ ret.val = is_type(ret.arg, ret.pred)
        /\ ret.val = is_type(ret.self.value, ret.pred)
        /\ (ret.pred = "object" => ret.val /\ is_type(ret.arg, "object"))

W_C7 ==
    /\ ret.op = "value_predicate"
    /\ ret.pred = "object"
    /\ ret.self.raw = "objId"
    /\ ret.val

\* C8: when the engine wrote an exception into the slot, the handle returned
\* is still the engine's returned raw value with the object's own context,
\* the same handle an empty slot would give for that raw value.
C8_ExceptionNotSurfaced ==
    ret.op \in Gets /\ ret.e # NULLPTR =>
        ret.val =
            JSValueOf(IF ret.op = "get_property"
                      THEN JSObjectGetProperty(ret.self.value.ctx, ret.self.raw,
                                               into(ret.arg).raw).raw
                      ELSE JSObjectGetPropertyAtIndex(ret.self.value.ctx, ret.self.raw,
                                                      ret.arg).raw,
                      ret.self.value.ctx)

W_C8 ==
    /\ ret.op = "get_property"
    /\ ret.arg = N_boom
    /\ ret.e = "strAbc"
    /\ ret.val.raw = engineThrowRaw

\* C9: 0 <= index <= count for every cursor; a new cursor starts at 0; a
\* next call adds exactly 1 below count and nothing at count; nothing else,
\* size_hint included, changes index.
C9_IndexBounded ==
    /\ [](\A c \in 1..Len(cursors) :
            cursors[c].idx >= 0 /\ cursors[c].idx <= Count(c))
    /\ [][/\ \A c \in 1..Len(cursors) :
               IF ret'.op = "next" /\ ret'.cursor = c
               THEN cursors'[c].idx =
                        IF cursors[c].idx < Count(c) THEN cursors[c].idx + 1
                        ELSE cursors[c].idx
               ELSE cursors'[c].idx = cursors[c].idx
          /\ \A c \in (Len(cursors) + 1)..Len(cursors') : cursors'[c].idx = 0]_vars

W_C9 ==
    /\ ret.op = "size_hint"
    /\ Count(ret.cursor) >= 3
    /\ cursors[ret.cursor].idx = Count(ret.cursor) - 1

\* C10: no two cursors hold the same array reference; every property_names
\* call allocates one array and puts it in one new cursor with index 0; a
\* cursor's array reference never changes; no array is released twice.
C10_SingleOwner ==
    /\ [](/\ \A c1, c2 \in 1..Len(cursors) :
               c1 # c2 => cursors[c1].raw # cursors[c2].raw
          /\ Len(arrays) = Len(cursors)
          /\ \A a \in 1..Len(arrays) : arrays[a].released <= 1)
    /\ [][/\ \A c \in 1..Len(cursors) : cursors'[c].raw = cursors[c].raw
          /\ (ret'.op = "property_names" /\ ret' # ret =>
                /\ Len(arrays') = Len(arrays) + 1
                /\ Len(cursors') = Len(cursors) + 1
                /\ cursors'[Len(cursors')] =
                       [raw |-> Len(arrays'), idx |-> 0, alive |-> TRUE])]_vars

W_C10 ==
    /\ Len(cursors) >= 2
    /\ cursors[1].alive
    /\ cursors[2].alive
    /\ arrays[cursors[1].raw].obj = arrays[cursors[2].raw].obj
    /\ cursors[1].idx > 0

====
